---------------------------- MODULE Spec2Model ----------------------------
(***************************************************************************)
(* A model of the three probabilistic data structures of                   *)
(* san81/probabilistic-datastructures (src/python): BloomFilter,           *)
(* CountMinSketch / ConservativeCountMinSketch and HyperLogLog.            *)
(*                                                                         *)
(* Every structure is a Python object; the model keeps a few named         *)
(* instances of each class and one action per method call.  A call that    *)
(* raises leaves the exception's name in err.  The digests of hashlib      *)
(* (sha256, sha1) are not computed: they are arbitrary functions of the    *)
(* digested bytes, fixed in the initial state, so every property is        *)
(* checked for every hash function over the modelled inputs.               *)
(***************************************************************************)
EXTENDS Integers, Sequences, FiniteSets, TLC

VARIABLES
    sha256,     \* hashlib.sha256(b).digest()[:4] as an unsigned integer, per input b
    sha1,       \* hashlib.sha1(b).digest()[:8] as a 64-bit value, per input b
    bf,         \* the BloomFilter objects, by name
    cms,        \* the CountMinSketch objects, by name
    hll,        \* the HyperLogLog objects, by name
    heap,       \* the list objects, by address, where objects are kept by reference
    hist,       \* ghost: per traced object, the add calls it has logically received
    last,       \* the last call made: its method, receiver and argument
    err,        \* the exception the last call raised, or "none"
    nops        \* number of calls made so far

vars == <<sha256, sha1, bf, cms, hll, heap, hist, last, err, nops>>

(***************************************************************************)
(* Bounds of the model.                                                    *)
(***************************************************************************)
\* Calls made in one behaviour.
MaxOps == 3
\* The 32-bit digest prefix ranges over 0..MaxHash.
MaxHash == 1

\* The count arguments of CountMinSketch.add in the specifications with
\* positive counts only.
PosCounts == {1, 2}

(***************************************************************************)
(* Python values given as items, and their conversion to bytes             *)
(* (the first lines of every _hash).                                       *)
(***************************************************************************)
StrA == [type |-> "str", val |-> <<"a">>]
Str1 == [type |-> "str", val |-> <<"1">>]
Int1 == [type |-> "int", val |-> 1]
BytesB == [type |-> "bytes", val |-> <<98>>]

\* The items the filter calls draw from: a str, and a str and an int whose
\* textual form is the same ("1" and 1), so that distinct items digest
\* alike.
Items == {StrA, Str1, Int1}

\* The items the sketch calls draw from: a str and an int.
CMSItems == {StrA, Int1}

\* The values the estimator calls draw from: a str, an int and a bytes
\* object, of three different byte strings.
HLLItems == {StrA, Int1, BytesB}

\* The code point of an ASCII character (its one-byte UTF-8 encoding).
Ord(c) ==
    CASE c = "0" -> 48 [] c = "1" -> 49 [] c = "2" -> 50 [] c = "3" -> 51
      [] c = "4" -> 52 [] c = "5" -> 53 [] c = "6" -> 54 [] c = "7" -> 55
      [] c = "8" -> 56 [] c = "9" -> 57 [] c = "a" -> 97

\* s.encode('utf-8') for an ASCII string s.
EncodeUtf8(s) == [i \in 1..Len(s) |-> Ord(s[i])]

Digit(d) == <<"0", "1", "2", "3", "4", "5", "6", "7", "8", "9">>[d + 1]

RECURSIVE StrOfNat(_)
\* str(n) for an int n >= 0.
StrOfNat(n) == IF n < 10 THEN <<Digit(n)>>
               ELSE StrOfNat(n \div 10) \o <<Digit(n % 10)>>

\* The conversion at the head of _hash: str is encoded, bytes are kept,
\* anything else goes through str().
ToBytes(item) ==
    IF item.type = "str" THEN EncodeUtf8(item.val)
    ELSE IF item.type = "bytes" THEN item.val
    ELSE EncodeUtf8(StrOfNat(item.val))

\* item + str(seed).encode(): what sha256 digests.
SeededInput(item, seed) == ToBytes(item) \o EncodeUtf8(StrOfNat(seed))

\* Seeds the modelled structures use (BloomFilter: 0 and 1; a sketch of
\* depth d: 0..d-1, d <= 2 here), and the inputs the digests can be given.
Seeds == {0, 1}
SeededInputs(items) == {SeededInput(x, s) : x \in items, s \in Seeds}
PlainInputs == {ToBytes(x) : x \in HLLItems}

\* ceil(a / b) for b > 0.
CeilDiv(a, b) == IF a >= 0 THEN (a + b - 1) \div b ELSE -((-a) \div b)

NoCall == [op |-> "new", recv |-> "-", arg |-> "-"]

(***************************************************************************)
(* BloomFilter (src/python/bloomfilter.py)                                 *)
(***************************************************************************)
BFNames == {"A", "B"}

\* math.log(p) in thousandths, for the false-positive rates (in percent)
\* the model constructs with; math.log(2) in thousandths.
LnMilli(pct) ==
    CASE pct = 50 -> -693 [] pct = 30 -> -1204 [] pct = 25 -> -1386
      [] pct = 10 -> -2303 [] pct = 100 -> 0 [] pct = 150 -> 405
Ln2Milli == 693

\* (expected_items, false_positive_rate in percent) the model constructs with.
BFConfigs == {<<1, 50>>, <<2, 50>>, <<1, 25>>}

\* m = -(n * ln p) / (ln 2)^2, rounded up.
OptimalSize(n, pct) == CeilDiv(-(n * LnMilli(pct)) * 1000, Ln2Milli * Ln2Milli)

\* k = (m / n) * ln 2, rounded up (n # 0).
OptimalHashCount(m, n) ==
    IF n < 0 THEN CeilDiv(-(m * Ln2Milli), -(n * 1000))
    ELSE CeilDiv(m * Ln2Milli, n * 1000)

\* Mutant of BFNew: the bit array is allocated with every bit set.
BFNewAllSet(n, pct) ==
    LET m == OptimalSize(n, pct) IN
    [expected_items |-> n,
     false_positive_rate |-> pct,
     size |-> m,
     num_hashes |-> OptimalHashCount(m, n),
     bit_array |-> [i \in 0..(m - 1) |-> 1],
     items_added |-> 0]

\* BloomFilter.__init__ with a valid false_positive_rate.
BFNew(n, pct) ==
    LET m == OptimalSize(n, pct) IN
    [expected_items |-> n,
     false_positive_rate |-> pct,
     size |-> m,
     num_hashes |-> OptimalHashCount(m, n),
     bit_array |-> [i \in 0..(m - 1) |-> 0],
     items_added |-> 0]

\* BloomFilter._hash
BFHash(self, item, seed) == sha256[SeededInput(item, seed)] % self.size

\* BloomFilter._get_positions: the k positions, as a sequence.
BFGetPositions(self, item) ==
    LET hash1 == BFHash(self, item, 0)
        hash2 == BFHash(self, item, 1)
    IN  [j \in 1..self.num_hashes |-> (hash1 + (j - 1) * hash2) % self.size]

\* The positions as a set.
BFPositionSet(self, item) ==
    {BFGetPositions(self, item)[j] : j \in 1..self.num_hashes}

\* Mutant of BFAdded: the loop over the positions stops one short.
BFAddedSkipLast(self, item) ==
    [self EXCEPT
        !.bit_array = [i \in DOMAIN self.bit_array |->
                          IF \E j \in 1..(self.num_hashes - 1) :
                                i = BFGetPositions(self, item)[j]
                          THEN 1
                          ELSE self.bit_array[i]],
        !.items_added = self.items_added + 1]

\* Mutant of BFAdded: the bit array is rebuilt from the item's positions.
BFAddedReset(self, item) ==
    [self EXCEPT
        !.bit_array = [i \in DOMAIN self.bit_array |->
                          IF i \in BFPositionSet(self, item) THEN 1 ELSE 0],
        !.items_added = self.items_added + 1]

\* Mutant of BFAdded: items_added counts only the adds that set a bit.
BFAddedCountNew(self, item) ==
    [self EXCEPT
        !.bit_array = [i \in DOMAIN self.bit_array |->
                          IF i \in BFPositionSet(self, item) THEN 1
                          ELSE self.bit_array[i]],
        !.items_added = IF \A i \in BFPositionSet(self, item) : self.bit_array[i] = 1
                        THEN self.items_added
                        ELSE self.items_added + 1]

\* The filter after add(item).
BFAdded(self, item) ==
    [self EXCEPT
        !.bit_array = [i \in DOMAIN self.bit_array |->
                          IF i \in BFPositionSet(self, item) THEN 1
                          ELSE self.bit_array[i]],
        !.items_added = self.items_added + 1]

\* BloomFilter.contains
BFContains(self, item) ==
    \A j \in 1..self.num_hashes : self.bit_array[BFGetPositions(self, item)[j]] = 1

\* BloomFilter.__contains__ (item in bf)
BFIn(item, self) == BFContains(self, item)

\* BloomFilter.__len__ (len(bf))
BFLen(self) == self.items_added

\* BloomFilter.utilization, as the fraction <<numerator, denominator>>.
BFUtilization(self) ==
    <<Cardinality({i \in DOMAIN self.bit_array : self.bit_array[i] = 1}) * 100,
      self.size>>

\* BloomFilter.actual_false_positive_rate: 0.0 when nothing was added, else
\* (1 - e^(-k*n/m))^k, kept as its operands <<k, n, m>>.
BFActualFalsePositiveRate(self) ==
    IF self.items_added = 0 THEN <<0>>
    ELSE <<self.num_hashes, self.items_added, self.size>>

\* The attributes class BloomFilter defines; a call of any other name
\* raises AttributeError.
BFAttributes ==
    {"__init__", "_optimal_size", "_optimal_hash_count", "_hash",
     "_get_positions", "add", "contains", "__contains__",
     "actual_false_positive_rate", "utilization", "__len__", "info"}

\* What the call bf.<name>(...) raises before the method body runs.
BFLookup(name) == IF name \in BFAttributes THEN "none" ELSE "AttributeError"

\* The items of a history.
HistItems(h) == {h[i][1] : i \in 1..Len(h)}

RECURSIVE TrueCount(_, _)
\* The sum of the counts a history holds for item x.
TrueCount(h, x) ==
    IF h = <<>> THEN 0
    ELSE (IF Head(h)[1] = x THEN Head(h)[2] ELSE 0) + TrueCount(Tail(h), x)

\* bf.add(item)
BFAdd(r, x) ==
    /\ nops < MaxOps
    /\ bf' = [bf EXCEPT ![r] = BFAdded(bf[r], x)]
    /\ hist' = [hist EXCEPT ![r] = Append(hist[r], <<x, 1>>)]
    /\ last' = [op |-> "add", recv |-> r, arg |-> x]
    /\ err' = "none"
    /\ nops' = nops + 1
    /\ UNCHANGED <<heap, sha256, sha1, cms, hll>>

\* bf.merge(other): class BloomFilter defines no attribute merge, so the
\* attribute lookup raises before anything is called.
BFMerge(r, o) ==
    /\ nops < MaxOps
    /\ err' = BFLookup("merge")
    /\ bf' = bf
    /\ last' = [op |-> "merge", recv |-> r, arg |-> o]
    /\ nops' = nops + 1
    /\ UNCHANGED <<heap, sha256, sha1, cms, hll, hist>>

InitBF ==
    /\ sha256 \in [SeededInputs(Items) -> 0..MaxHash]
    /\ sha1 = <<>>
    /\ \E c \in BFConfigs : bf = [r \in BFNames |-> BFNew(c[1], c[2])]
    /\ cms = <<>>
    /\ hll = <<>>
    /\ hist = [r \in BFNames |-> <<>>]
    /\ last = NoCall
    /\ err = "none"
    /\ nops = 0
    /\ heap = <<>>

NextBF ==
    \/ \E r \in BFNames, x \in Items : BFAdd(r, x)
    \/ \E r \in BFNames, o \in BFNames : BFMerge(r, o)

SpecBF == InitBF /\ [][NextBF]_vars

\* A name no object is bound to, and an object no attribute of which has
\* been assigned.
Unbound == [unbound |-> TRUE]
NoAttributes == <<>>

\* Mutant of BFInit: only a rate <= 0 is refused.
BFInitNoUpper(n, pct) ==
    IF ~(0 < pct) THEN [self |-> NoAttributes, err |-> "ValueError"]
    ELSE IF n = 0
    THEN [self |-> [expected_items |-> n, false_positive_rate |-> pct,
                    size |-> OptimalSize(n, pct)],
          err |-> "ZeroDivisionError"]
    ELSE [self |-> BFNew(n, pct), err |-> "none"]

\* BloomFilter.__init__(expected_items, false_positive_rate) for any
\* arguments: the attributes assigned to self when it returns or raises,
\* and the exception raised.  Only the rate is tested; with
\* expected_items = 0 the division of _optimal_hash_count raises after
\* size was assigned.
BFInit(n, pct) ==
    IF ~(0 < pct /\ pct < 100) THEN [self |-> NoAttributes, err |-> "ValueError"]
    ELSE IF n = 0
    THEN [self |-> [expected_items |-> n, false_positive_rate |-> pct,
                    size |-> OptimalSize(n, pct)],
          err |-> "ZeroDivisionError"]
    ELSE [self |-> BFNew(n, pct), err |-> "none"]

\* The arguments the constructor is called with: expected_items, and
\* false_positive_rate in percent.
ExpectedItemsArgs == {-1, 0, 1, 2}
RateArgs == {-50, 0, 25, 50, 100, 150}

\* r = BloomFilter(n, p): r is bound to the new filter unless __init__
\* raises.
BFConstruct(r, n, pct) ==
    /\ nops < MaxOps
    /\ bf' = [bf EXCEPT ![r] = IF BFInit(n, pct).err = "none"
                               THEN BFInit(n, pct).self ELSE bf[r]]
    /\ last' = [op |-> "__init__", recv |-> r, arg |-> <<n, pct>>,
                result |-> BFInit(n, pct).self]
    /\ err' = BFInit(n, pct).err
    /\ nops' = nops + 1
    /\ UNCHANGED <<heap, sha256, sha1, cms, hll, hist>>

\* Two names, no filter constructed yet.
InitBFNew ==
    /\ sha256 = <<>>
    /\ sha1 = <<>>
    /\ bf = [r \in BFNames |-> Unbound]
    /\ cms = <<>>
    /\ hll = <<>>
    /\ hist = <<>>
    /\ last = NoCall
    /\ err = "none"
    /\ nops = 0
    /\ heap = <<>>

NextBFNew == \E r \in BFNames, n \in ExpectedItemsArgs, pct \in RateArgs : BFConstruct(r, n, pct)

SpecBFNew == InitBFNew /\ [][NextBFNew]_vars

\* Mutant of BFQuery: contains counts its calls in items_added.
BFQueryCounting(r, name, x) ==
    /\ nops < MaxOps
    /\ last' = [op |-> name, recv |-> r, arg |-> x,
                result |-> CASE name = "contains" -> BFContains(bf[r], x)
                             [] name = "__contains__" -> BFIn(x, bf[r])
                             [] name = "__len__" -> BFLen(bf[r])
                             [] name = "utilization" -> BFUtilization(bf[r])
                             [] name = "actual_false_positive_rate" ->
                                    BFActualFalsePositiveRate(bf[r])]
    /\ err' = BFLookup(name)
    /\ nops' = nops + 1
    /\ bf' = IF name = "contains"
             THEN [bf EXCEPT ![r].items_added = bf[r].items_added + 1]
             ELSE bf
    /\ UNCHANGED <<heap, sha256, sha1, cms, hll, hist>>

\* A query of the filter: contains(x), x in bf, len(bf), utilization(),
\* actual_false_positive_rate().  None assigns to self.
BFQuery(r, name, x) ==
    /\ nops < MaxOps
    /\ last' = [op |-> name, recv |-> r, arg |-> x,
                result |-> CASE name = "contains" -> BFContains(bf[r], x)
                             [] name = "__contains__" -> BFIn(x, bf[r])
                             [] name = "__len__" -> BFLen(bf[r])
                             [] name = "utilization" -> BFUtilization(bf[r])
                             [] name = "actual_false_positive_rate" ->
                                    BFActualFalsePositiveRate(bf[r])]
    /\ err' = BFLookup(name)
    /\ nops' = nops + 1
    /\ UNCHANGED <<heap, sha256, sha1, bf, cms, hll, hist>>

\* One filter and every operation on it.
InitBFOps ==
    /\ sha256 \in [SeededInputs(Items) -> 0..MaxHash]
    /\ sha1 = <<>>
    /\ \E c \in BFConfigs : bf = [r \in {"A"} |-> BFNew(c[1], c[2])]
    /\ cms = <<>>
    /\ hll = <<>>
    /\ hist = [r \in {"A"} |-> <<>>]
    /\ last = NoCall
    /\ err = "none"
    /\ nops = 0
    /\ heap = <<>>

NextBFOps ==
    \/ \E r \in DOMAIN bf, x \in Items : BFAdd(r, x)
    \/ \E r \in DOMAIN bf, o \in DOMAIN bf : BFMerge(r, o)
    \/ \E r \in DOMAIN bf, x \in Items :
          BFQuery(r, "contains", x) \/ BFQuery(r, "__contains__", x)
    \/ \E r \in DOMAIN bf :
          \/ BFQuery(r, "__len__", "-")
          \/ BFQuery(r, "utilization", "-")
          \/ BFQuery(r, "actual_false_positive_rate", "-")

SpecBFOps == InitBFOps /\ [][NextBFOps]_vars

(***************************************************************************)
(* CountMinSketch and ConservativeCountMinSketch                           *)
(* (src/python/countminsketch.py)                                          *)
(***************************************************************************)
\* The objects of a specification with two operands, and with three.
Pair == {"A", "B"}
Triple == {"A", "B", "C"}

\* math.e in thousandths.
EMilli == 2718

\* (epsilon, delta) in percent the model constructs with:
\* 3 x 2, 4 x 2 and 3 x 1 counters.
CMSBase == <<95, 30>>
CMSConfigs == {<<95, 30>>, <<70, 30>>, <<95, 50>>}

\* CountMinSketch.__init__ with valid epsilon and delta; kind is the class
\* instantiated ("standard": CountMinSketch, "conservative": the subclass).
CMSNew(kind, eps, delta) ==
    LET w == CeilDiv(EMilli * 100, 1000 * eps)
        d == CeilDiv(-LnMilli(delta), 1000)
    IN  [kind |-> kind,
         epsilon |-> eps,
         delta |-> delta,
         width |-> w,
         depth |-> d,
         table |-> [i \in 0..(d - 1) |-> [j \in 0..(w - 1) |-> 0]],
         total_count |-> 0]

\* CountMinSketch._hash
CMSHash(self, item, seed) == sha256[SeededInput(item, seed)] % self.width

\* Mutant of StandardAdded: a count below 1 is ignored.
StandardAddedPositiveOnly(self, item, count) ==
    IF count < 1 THEN self
    ELSE [self EXCEPT
            !.table = [i \in DOMAIN self.table |->
                         [j \in DOMAIN self.table[i] |->
                            IF j = CMSHash(self, item, i)
                            THEN self.table[i][j] + count
                            ELSE self.table[i][j]]],
            !.total_count = self.total_count + count]

\* Mutant of StandardAdded: the loop over the rows stops one short.
StandardAddedSkipRow(self, item, count) ==
    [self EXCEPT
        !.table = [i \in DOMAIN self.table |->
                     [j \in DOMAIN self.table[i] |->
                        IF j = CMSHash(self, item, i) /\ i < self.depth - 1
                        THEN self.table[i][j] + count
                        ELSE self.table[i][j]]],
        !.total_count = self.total_count + count]

\* The sketch after CountMinSketch.add(item, count).
StandardAdded(self, item, count) ==
    [self EXCEPT
        !.table = [i \in DOMAIN self.table |->
                     [j \in DOMAIN self.table[i] |->
                        IF j = CMSHash(self, item, i)
                        THEN self.table[i][j] + count
                        ELSE self.table[i][j]]],
        !.total_count = self.total_count + count]

\* min() of a non-empty set of integers.
Min(S) == CHOOSE v \in S : \A u \in S : v <= u

\* Mutant of ConservativeAdded: total_count follows the counters, rising
\* by count for each counter incremented.
ConservativeAddedTotalPerCell(self, item, count) ==
    LET counts == [i \in DOMAIN self.table |->
                      self.table[i][CMSHash(self, item, i)]]
        min_count == Min({counts[i] : i \in DOMAIN counts})
    IN  [self EXCEPT
            !.table = [i \in DOMAIN self.table |->
                         [j \in DOMAIN self.table[i] |->
                            IF j = CMSHash(self, item, i) /\ counts[i] = min_count
                            THEN self.table[i][j] + count
                            ELSE self.table[i][j]]],
            !.total_count = self.total_count +
                count * Cardinality({i \in DOMAIN counts : counts[i] = min_count})]

\* Mutant of ConservativeAdded: every counter of the item is incremented.
ConservativeAddedAll(self, item, count) ==
    [self EXCEPT
        !.table = [i \in DOMAIN self.table |->
                     [j \in DOMAIN self.table[i] |->
                        IF j = CMSHash(self, item, i)
                        THEN self.table[i][j] + count
                        ELSE self.table[i][j]]],
        !.total_count = self.total_count + count]

\* Mutant of ConservativeAdded: the minimal counters receive count twice.
ConservativeAddedTwice(self, item, count) ==
    LET counts == [i \in DOMAIN self.table |->
                      self.table[i][CMSHash(self, item, i)]]
        min_count == Min({counts[i] : i \in DOMAIN counts})
    IN  [self EXCEPT
            !.table = [i \in DOMAIN self.table |->
                         [j \in DOMAIN self.table[i] |->
                            IF j = CMSHash(self, item, i) /\ counts[i] = min_count
                            THEN self.table[i][j] + 2 * count
                            ELSE self.table[i][j]]],
            !.total_count = self.total_count + count]

\* The sketch after ConservativeCountMinSketch.add(item, count).
ConservativeAdded(self, item, count) ==
    LET counts == [i \in DOMAIN self.table |->
                      self.table[i][CMSHash(self, item, i)]]
        min_count == Min({counts[i] : i \in DOMAIN counts})
    IN  [self EXCEPT
            !.table = [i \in DOMAIN self.table |->
                         [j \in DOMAIN self.table[i] |->
                            IF j = CMSHash(self, item, i) /\ counts[i] = min_count
                            THEN self.table[i][j] + count
                            ELSE self.table[i][j]]],
            !.total_count = self.total_count + count]

\* self.add(item, count), resolved on the class of self.
CMSAdded(self, item, count) ==
    IF self.kind = "conservative" THEN ConservativeAdded(self, item, count)
    ELSE StandardAdded(self, item, count)

\* CountMinSketch.estimate / __getitem__
CMSEstimate(self, item) ==
    Min({self.table[i][CMSHash(self, item, i)] : i \in DOMAIN self.table})

\* The dimension test at the head of CountMinSketch.merge.
CMSMismatch(self, other) ==
    self.width # other.width \/ self.depth # other.depth

\* Mutant of CMSMerged: the counters are assigned, not added.
CMSMergedOverwrite(self, other) ==
    [self EXCEPT
        !.table = [i \in DOMAIN self.table |->
                     [j \in DOMAIN self.table[i] |-> other.table[i][j]]],
        !.total_count = self.total_count + other.total_count]

\* Mutant of CMSMerged: total_count is not summed.
CMSMergedNoTotal(self, other) ==
    [self EXCEPT
        !.table = [i \in DOMAIN self.table |->
                     [j \in DOMAIN self.table[i] |->
                        self.table[i][j] + other.table[i][j]]]]

\* The receiver after a merge that passed the dimension test.
CMSMerged(self, other) ==
    [self EXCEPT
        !.table = [i \in DOMAIN self.table |->
                     [j \in DOMAIN self.table[i] |->
                        self.table[i][j] + other.table[i][j]]],
        !.total_count = self.total_count + other.total_count]

\* Mutant of CMSMergeOutcome: total_count is summed before the dimension
\* test.
CMSMergeOutcomeLateCheck(self, other) ==
    IF self.width # other.width \/ self.depth # other.depth
    THEN [obj |-> [self EXCEPT !.total_count = self.total_count + other.total_count],
          err |-> "ValueError"]
    ELSE [obj |-> [self EXCEPT
                     !.table = [i \in DOMAIN self.table |->
                                  [j \in DOMAIN self.table[i] |->
                                     self.table[i][j] + other.table[i][j]]],
                     !.total_count = self.total_count + other.total_count],
          err |-> "none"]

\* The receiver after self.merge(other), and the exception raised.
CMSMergeOutcome(self, other) ==
    IF CMSMismatch(self, other)
    THEN [obj |-> self, err |-> "ValueError"]
    ELSE [obj |-> CMSMerged(self, other), err |-> "none"]

\* sketch.add(item, count)
CMSAdd(r, x, c) ==
    /\ nops < MaxOps
    /\ cms' = [cms EXCEPT ![r] = CMSAdded(cms[r], x, c)]
    /\ hist' = IF r \in DOMAIN hist
               THEN [hist EXCEPT ![r] = Append(hist[r], <<x, c>>)]
               ELSE hist
    /\ last' = [op |-> "add", recv |-> r, arg |-> x]
    /\ err' = "none"
    /\ nops' = nops + 1
    /\ UNCHANGED <<heap, sha256, sha1, bf, hll>>

\* sketch.merge(other)
CMSMerge(r, o) ==
    LET out == CMSMergeOutcome(cms[r], cms[o]) IN
    /\ nops < MaxOps
    /\ cms' = [cms EXCEPT ![r] = out.obj]
    /\ err' = out.err
    /\ hist' = IF r \in DOMAIN hist /\ out.err = "none"
               THEN [hist EXCEPT ![r] = hist[r] \o hist[o]]
               ELSE hist
    /\ last' = [op |-> "merge", recv |-> r, arg |-> o]
    /\ nops' = nops + 1
    /\ UNCHANGED <<heap, sha256, sha1, bf, hll>>

\* Sketches of class kind, named by names: A (and C) of the base shape, B
\* of a shape among configs; those in traced have their history kept.
InitCMSOf(kind, names, configs, traced) ==
    /\ sha256 \in [SeededInputs(CMSItems) -> 0..MaxHash]
    /\ sha1 = <<>>
    /\ bf = <<>>
    /\ \E c \in configs :
          cms = [r \in names |->
                   IF r = "B" THEN CMSNew(kind, c[1], c[2])
                   ELSE CMSNew(kind, CMSBase[1], CMSBase[2])]
    /\ hll = <<>>
    /\ hist = [r \in traced |-> <<>>]
    /\ last = NoCall
    /\ err = "none"
    /\ nops = 0
    /\ heap = <<>>

NextCMSOf(counts) ==
    \/ \E r \in DOMAIN cms, x \in CMSItems, c \in counts : CMSAdd(r, x, c)
    \/ \E r \in DOMAIN cms, o \in DOMAIN cms : CMSMerge(r, o)

\* Two standard sketches, of equal or different shapes; positive counts.
InitCMS == InitCMSOf("standard", Pair, CMSConfigs, Pair)
NextCMS == NextCMSOf(PosCounts)
SpecCMS == InitCMS /\ [][NextCMS]_vars

\* Three standard sketches of one shape, without histories; positive
\* counts.
InitCMS3 == InitCMSOf("standard", Triple, {CMSBase}, {})
SpecCMS3 == InitCMS3 /\ [][NextCMS]_vars

\* Two conservative sketches, of equal or different shapes; positive counts.
InitCCMS == InitCMSOf("conservative", Pair, CMSConfigs, Pair)
SpecCCMS == InitCCMS /\ [][NextCMS]_vars

\* The count arguments of add in the specifications where count is any
\* integer: add performs no test on it.
IntCounts == {-1, 0, 2}

\* Two standard sketches of one shape; counts of either sign, and zero.
InitCMSInt == InitCMSOf("standard", Pair, {CMSBase}, Pair)
NextCMSInt == NextCMSOf(IntCounts)
SpecCMSInt == InitCMSInt /\ [][NextCMSInt]_vars

\* A standard sketch A and a conservative sketch B of one shape; counts of
\* either sign, and zero.
InitCMSMixed ==
    /\ sha256 \in [SeededInputs(CMSItems) -> 0..MaxHash]
    /\ sha1 = <<>>
    /\ bf = <<>>
    /\ cms = [r \in Pair |->
                CMSNew(IF r = "A" THEN "standard" ELSE "conservative",
                       CMSBase[1], CMSBase[2])]
    /\ hll = <<>>
    /\ hist = [r \in Pair |-> <<>>]
    /\ last = NoCall
    /\ err = "none"
    /\ nops = 0
    /\ heap = <<>>

NextCMSMixed == NextCMSOf(IntCounts)
SpecCMSMixed == InitCMSMixed /\ [][NextCMSMixed]_vars

\* standard.add(item, count); conservative.add(item, count): one step of
\* the loop that feeds a standard sketch (A) and a conservative one (B)
\* the same stream.
TwinAdd(x, c) ==
    /\ nops < MaxOps
    /\ cms' = [r \in DOMAIN cms |-> CMSAdded(cms[r], x, c)]
    /\ hist' = [r \in DOMAIN hist |-> Append(hist[r], <<x, c>>)]
    /\ last' = [op |-> "add", recv |-> "AB", arg |-> x]
    /\ err' = "none"
    /\ nops' = nops + 1
    /\ UNCHANGED <<heap, sha256, sha1, bf, hll>>

\* A standard sketch A and a conservative sketch B built with the same
\* epsilon and delta.
InitTwin ==
    /\ sha256 \in [SeededInputs(CMSItems) -> 0..MaxHash]
    /\ sha1 = <<>>
    /\ bf = <<>>
    /\ \E c \in CMSConfigs :
          cms = [r \in Pair |->
                   CMSNew(IF r = "A" THEN "standard" ELSE "conservative", c[1], c[2])]
    /\ hll = <<>>
    /\ hist = [r \in Pair |-> <<>>]
    /\ last = NoCall
    /\ err = "none"
    /\ nops = 0
    /\ heap = <<>>

NextTwin == \E x \in CMSItems, c \in PosCounts : TwinAdd(x, c)

SpecTwin == InitTwin /\ [][NextTwin]_vars

(***************************************************************************)
(* HyperLogLog (src/python/hyperloglog.py)                                 *)
(***************************************************************************)
\* A 64-bit hash value is kept in three limbs: lo holds bits 0..15, mid
\* bits 16..39 and hi bits 40..63.
RECURSIVE Pow2(_)
Pow2(n) == IF n = 0 THEN 1 ELSE 2 * Pow2(n - 1)

\* The powers of two a limb can need, computed once.
Pow2Table == [n \in 0..24 |-> Pow2(n)]

\* Bit k (0 = least significant) of the 64-bit value h.
Bit(h, k) ==
    IF k < 16 THEN (h.lo \div Pow2Table[k]) % 2
    ELSE IF k < 40 THEN (h.mid \div Pow2Table[k - 16]) % 2
    ELSE (h.hi \div Pow2Table[k - 40]) % 2

\* The values sha1 can take in the model: zero; bits 63 and 0; bits 4 and
\* 0 (bit 4 is the lowest bit above a 4-bit bucket index, and the highest
\* of a 5-bit one).
Hash64Values ==
    {[hi |-> 0, mid |-> 0, lo |-> 0],
     [hi |-> 8388608, mid |-> 0, lo |-> 1],
     [hi |-> 0, mid |-> 0, lo |-> 17]}

\* The range of precision __init__ accepts.
MinPrecision == 4
MaxPrecision == 16

\* The precisions the model constructs with: A and C with the least, B with
\* either.
HLLPrecisions == {MinPrecision, MinPrecision + 1}

\* The alpha table of __init__, as the fraction <<numerator, denominator>>.
HLLAlpha(m) ==
    IF m >= 128 THEN <<7213 * m, 10 * (1000 * m + 1079)>>
    ELSE IF m >= 64 THEN <<709, 1000>>
    ELSE IF m >= 32 THEN <<697, 1000>>
    ELSE IF m >= 16 THEN <<673, 1000>>
    ELSE <<5, 10>>

\* HyperLogLog.__init__ with a precision in 4..16.
HLLNew(precision) ==
    LET m == Pow2(precision) IN
    [precision |-> precision,
     m |-> m,
     registers |-> [i \in 0..(m - 1) |-> 0],
     alpha |-> HLLAlpha(m)]

\* Mutant of HLLInit: the bounds 4 and 16 are refused too.
HLLInitOpenRange(precision) ==
    IF ~(MinPrecision < precision /\ precision < MaxPrecision)
    THEN [self |-> NoAttributes, err |-> "ValueError"]
    ELSE [self |-> HLLNew(precision), err |-> "none"]

\* HyperLogLog.__init__(precision) for any integer precision: the
\* attributes assigned to self when it returns or raises, and the exception
\* raised.
HLLInit(precision) ==
    IF ~(MinPrecision <= precision /\ precision <= MaxPrecision)
    THEN [self |-> NoAttributes, err |-> "ValueError"]
    ELSE [self |-> HLLNew(precision), err |-> "none"]

\* The precisions the constructor is called with.
PrecisionArgs == {3, 4, 5, 6, 7, 16, 17}

\* r = HyperLogLog(precision): r is bound to the new estimator unless
\* __init__ raises.
HLLConstruct(r, precision) ==
    /\ nops < MaxOps
    /\ err' = HLLInit(precision).err
    /\ hll' = IF err' = "none" THEN [hll EXCEPT ![r] = HLLInit(precision).self]
              ELSE hll
    /\ last' = [op |-> "__init__", recv |-> r, arg |-> precision]
    /\ nops' = nops + 1
    /\ UNCHANGED <<heap, sha256, sha1, bf, cms, hist>>

\* Two names, no estimator constructed yet.
InitHLLNew ==
    /\ sha256 = <<>>
    /\ sha1 = <<>>
    /\ bf = <<>>
    /\ cms = <<>>
    /\ hll = [r \in Pair |-> Unbound]
    /\ hist = <<>>
    /\ last = NoCall
    /\ err = "none"
    /\ nops = 0
    /\ heap = <<>>

NextHLLNew == \E r \in Pair, precision \in PrecisionArgs : HLLConstruct(r, precision)

SpecHLLNew == InitHLLNew /\ [][NextHLLNew]_vars

\* HyperLogLog._hash
HLLHash(value) == sha1[ToBytes(value)]

RECURSIVE LowBits(_, _)
\* h & ((1 << n) - 1)
LowBits(h, n) ==
    IF n = 0 THEN 0 ELSE LowBits(h, n - 1) + Bit(h, n - 1) * Pow2(n - 1)

\* h >> n, kept as the value and the shift; its bit j is bit j + n of h.
ShiftRight(h, n) == [word |-> h, shift |-> n]
ShiftedBit(bits, j) == IF j + bits.shift > 63 THEN 0 ELSE Bit(bits.word, j + bits.shift)
\* bits == 0, for a shift of at most 16 (the precision).
ShiftedIsZero(bits) ==
    /\ bits.word.hi = 0
    /\ bits.word.mid = 0
    /\ bits.word.lo \div Pow2Table[bits.shift] = 0

RECURSIVE ScanZeros(_, _, _)
\* The while loop of _leading_zeros: mask is 1 << maskbit.
ScanZeros(bits, maskbit, leading) ==
    IF ShiftedBit(bits, maskbit) = 0
    THEN ScanZeros(bits, maskbit - 1, leading + 1)
    ELSE leading + 1

\* Mutant of LeadingZeros: the count of zeros, not the 1-indexed position.
LeadingZerosZeroIndexed(bits, max_width) ==
    IF ShiftedIsZero(bits) THEN max_width
    ELSE ScanZeros(bits, max_width - 1, 0) - 1

\* HyperLogLog._leading_zeros
LeadingZeros(bits, max_width) ==
    IF ShiftedIsZero(bits) THEN max_width
    ELSE ScanZeros(bits, max_width - 1, 0)

\* max() of two integers.
Max2(a, b) == IF a >= b THEN a ELSE b

\* The bucket index and the rank add(value) computes.
HLLBucket(self, value) == LowBits(HLLHash(value), self.precision)
HLLRank(self, value) ==
    LeadingZeros(ShiftRight(HLLHash(value), self.precision), 64 - self.precision)

\* Mutant of HLLAdded: the register is assigned the rank, without max().
HLLAddedOverwrite(self, value) ==
    [self EXCEPT !.registers[HLLBucket(self, value)] = HLLRank(self, value)]

\* The estimator after add(value).
HLLAdded(self, value) ==
    LET bucket_idx == HLLBucket(self, value)
        leading_zeros == HLLRank(self, value)
    IN  [self EXCEPT
            !.registers[bucket_idx] = Max2(self.registers[bucket_idx], leading_zeros)]

\* Mutant of HLLMerged: the registers are assigned, not maximised.
HLLMergedOverwrite(self, other) ==
    [self EXCEPT
        !.registers = [i \in 0..(self.m - 1) |-> other.registers[i]]]

\* The receiver after a merge that passed the precision test.
HLLMerged(self, other) ==
    [self EXCEPT
        !.registers = [i \in 0..(self.m - 1) |->
                          Max2(self.registers[i], other.registers[i])]]

\* Mutant of HLLMergeOutcome: the precision test follows the loop, which
\* runs over the registers both operands have.
HLLMergeOutcomeLateCheck(self, other) ==
    LET obj == [self EXCEPT
                  !.registers = [i \in 0..(self.m - 1) |->
                                    IF i < other.m
                                    THEN Max2(self.registers[i], other.registers[i])
                                    ELSE self.registers[i]]]
    IN  IF self.precision # other.precision
        THEN [obj |-> obj, err |-> "ValueError"]
        ELSE [obj |-> obj, err |-> "none"]

\* The receiver after self.merge(other), and the exception raised.
HLLMergeOutcome(self, other) ==
    IF self.precision # other.precision
    THEN [obj |-> self, err |-> "ValueError"]
    ELSE [obj |-> HLLMerged(self, other), err |-> "none"]

\* hll.add(value)
HLLAdd(r, x) ==
    /\ nops < MaxOps
    /\ hll' = [hll EXCEPT ![r] = HLLAdded(hll[r], x)]
    /\ hist' = IF r \in DOMAIN hist
               THEN [hist EXCEPT ![r] = Append(hist[r], <<x, 1>>)]
               ELSE hist
    /\ last' = [op |-> "add", recv |-> r, arg |-> x]
    /\ err' = "none"
    /\ nops' = nops + 1
    /\ UNCHANGED <<heap, sha256, sha1, bf, cms>>

\* hll.merge(other)
HLLMerge(r, o) ==
    LET out == HLLMergeOutcome(hll[r], hll[o]) IN
    /\ nops < MaxOps
    /\ hll' = [hll EXCEPT ![r] = out.obj]
    /\ err' = out.err
    /\ hist' = IF r \in DOMAIN hist /\ out.err = "none"
               THEN [hist EXCEPT ![r] = hist[r] \o hist[o]]
               ELSE hist
    /\ last' = [op |-> "merge", recv |-> r, arg |-> o]
    /\ nops' = nops + 1
    /\ UNCHANGED <<heap, sha256, sha1, bf, cms>>

\* count() works on floats beyond 32 bits.  Its quantities are kept exact:
\* a natural number is a little-endian sequence of limbs of 15 bits, and a
\* fraction a pair of them.
Limbs == 1..6
LimbBase == Pow2Table[15]
BigPow2(e) == [i \in Limbs |-> IF i = (e \div 15) + 1 THEN Pow2Table[e % 15] ELSE 0]

RECURSIVE BigCarry(_, _, _)
\* x with the carry c propagated from limb i upwards.
BigCarry(x, i, c) ==
    IF i \notin Limbs THEN x
    ELSE BigCarry([x EXCEPT ![i] = (x[i] + c) % LimbBase], i + 1, (x[i] + c) \div LimbBase)

\* x * k for a natural k small enough that a limb times k fits an int.
BigScale(x, k) == BigCarry([i \in Limbs |-> x[i] * k], 1, 0)

RECURSIVE BigCompareFrom(_, _, _)
\* The order of a and b, decided from limb i downwards.
BigCompareFrom(a, b, i) ==
    IF i \notin Limbs THEN "eq"
    ELSE IF a[i] < b[i] THEN "lt"
    ELSE IF a[i] > b[i] THEN "gt"
    ELSE BigCompareFrom(a, b, i - 1)

BigLeq(a, b) == BigCompareFrom(a, b, Cardinality(Limbs)) # "gt"
BigLess(a, b) == BigCompareFrom(a, b, Cardinality(Limbs)) = "lt"

\* The width of the widest rank: 2 ** (-x) is kept as 2 ** (RankWidth - x).
RankWidth == 64 - MinPrecision

RECURSIVE InvSumLimb(_, _, _)
\* Limb i of the sum of 2 ** (RankWidth - x) over the registers from j on,
\* before the carries.
InvSumLimb(regs, j, i) ==
    IF j \notin DOMAIN regs THEN 0
    ELSE BigPow2(RankWidth - regs[j])[i] + InvSumLimb(regs, j + 1, i)

\* sum(2 ** (-x) for x in self.registers), times 2 ** RankWidth.
HLLInvSum(self) ==
    BigCarry([i \in Limbs |-> InvSumLimb(self.registers, 0, i)], 1, 0)

\* math.log(n) in thousandths, for n in 1..32.
LnNatMilli ==
    <<0, 693, 1099, 1386, 1609, 1792, 1946, 2079, 2197, 2303, 2398, 2485,
      2565, 2639, 2708, 2773, 2833, 2890, 2944, 2996, 3045, 3091, 3135,
      3178, 3219, 3258, 3296, 3332, 3367, 3401, 3434, 3466>>

\* HyperLogLog.count: the branch taken (regime), the exception raised, and
\* the value returned.  raw is raw_estimate as the fraction num / den and
\* scaled is raw_estimate / (1 << 32) as the fraction scaled / den.  The
\* value is m * ln(m / zeros) in thousandths (milli) in the small range,
\* raw in the medium range, and -(1 << 32) * ln(1 - scaled / den) in the
\* large range, where math.log raises ValueError unless its argument is
\* positive.
HLLCount(self) ==
    LET den == BigScale(HLLInvSum(self), self.alpha[2])
        num == BigScale(BigPow2(2 * self.precision + RankWidth), self.alpha[1])
        scaled == BigScale(BigPow2(2 * self.precision + RankWidth - 32), self.alpha[1])
        zeros == Cardinality({j \in DOMAIN self.registers : self.registers[j] = 0})
        result(regime, e, milli) ==
            [regime |-> regime, err |-> e, milli |-> milli, zeros |-> zeros,
             raw |-> [num |-> num, den |-> den], scaled |-> scaled]
    IN  IF BigLeq(BigScale(num, 2), BigScale(den, 5 * self.m)) /\ zeros # 0
        THEN result("small", "none",
                    self.m * (LnNatMilli[self.m] - LnNatMilli[zeros]))
        ELSE IF BigLeq(BigScale(scaled, 30), den)
        THEN result("medium", "none", 0)
        ELSE IF BigLess(scaled, den)
        THEN result("large", "none", 0)
        ELSE result("large", "ValueError", 0)

\* hll.count()
HLLCountCall(r) ==
    /\ nops < MaxOps
    /\ last' = [op |-> "count", recv |-> r, arg |-> "-", result |-> HLLCount(hll[r])]
    /\ err' = last'.result.err
    /\ nops' = nops + 1
    /\ UNCHANGED <<heap, sha256, sha1, bf, cms, hll, hist>>

\* A float argument of the constructor: its value in percent, or the
\* smallest positive float (5e-324, min = TRUE), which is 0 percent when
\* rounded but greater than 0.
FloatArg(pct) == [pct |-> pct, min |-> FALSE]
MinFloat == [pct |-> 0, min |-> TRUE]

\* 0 < x < 1.
InUnitInterval(x) == x.min \/ (0 < x.pct /\ x.pct < 100)

\* CountMinSketch.__init__(epsilon, delta) for any arguments: the attributes
\* assigned to self when it returns or raises, and the exception raised.
\* math.e / 5e-324 and 1 / 5e-324 are inf, and math.ceil(inf) raises
\* OverflowError.
CMSInit(kind, eps, delta) ==
    IF ~InUnitInterval(eps) THEN [self |-> NoAttributes, err |-> "ValueError"]
    ELSE IF ~InUnitInterval(delta) THEN [self |-> NoAttributes, err |-> "ValueError"]
    ELSE IF eps.min
    THEN [self |-> [epsilon |-> eps, delta |-> delta], err |-> "OverflowError"]
    ELSE IF delta.min
    THEN [self |-> [epsilon |-> eps, delta |-> delta,
                    width |-> CeilDiv(EMilli * 100, 1000 * eps.pct)],
          err |-> "OverflowError"]
    ELSE [self |-> CMSNew(kind, eps.pct, delta.pct), err |-> "none"]

\* The arguments the constructor is called with.
EpsilonArgs == {FloatArg(0), FloatArg(70), FloatArg(95), FloatArg(150), MinFloat}
DeltaArgs == {FloatArg(0), FloatArg(30), FloatArg(50), FloatArg(100), MinFloat}

\* r = CountMinSketch(eps, delta) or r = ConservativeCountMinSketch(eps,
\* delta): r is bound to the new sketch unless __init__ raises.
CMSConstruct(r, kind, eps, delta) ==
    /\ nops < MaxOps
    /\ cms' = [cms EXCEPT ![r] = IF CMSInit(kind, eps, delta).err = "none"
                                 THEN CMSInit(kind, eps, delta).self ELSE cms[r]]
    /\ last' = [op |-> "__init__", recv |-> r, arg |-> <<eps, delta>>,
                result |-> CMSInit(kind, eps, delta).self]
    /\ err' = CMSInit(kind, eps, delta).err
    /\ nops' = nops + 1
    /\ UNCHANGED <<heap, sha256, sha1, bf, hll, hist>>

\* Two names, no sketch constructed yet.
InitCMSNew ==
    /\ sha256 = <<>>
    /\ sha1 = <<>>
    /\ bf = <<>>
    /\ cms = [r \in Pair |-> Unbound]
    /\ hll = <<>>
    /\ hist = <<>>
    /\ last = NoCall
    /\ err = "none"
    /\ nops = 0
    /\ heap = <<>>

NextCMSNew ==
    \E r \in Pair, kind \in {"standard", "conservative"},
       eps \in EpsilonArgs, delta \in DeltaArgs : CMSConstruct(r, kind, eps, delta)

SpecCMSNew == InitCMSNew /\ [][NextCMSNew]_vars

\* Estimators named by names: A (and C) of the least precision, B of a
\* precision among precisions; those in traced have their history kept.
InitHLLOf(names, precisions, traced) ==
    /\ sha256 = <<>>
    /\ sha1 \in [PlainInputs -> Hash64Values]
    /\ bf = <<>>
    /\ cms = <<>>
    /\ \E p \in precisions :
          hll = [r \in names |-> IF r = "B" THEN HLLNew(p) ELSE HLLNew(MinPrecision)]
    /\ hist = [r \in traced |-> <<>>]
    /\ last = NoCall
    /\ err = "none"
    /\ nops = 0
    /\ heap = <<>>

NextHLL ==
    \/ \E r \in DOMAIN hll, x \in HLLItems : HLLAdd(r, x)
    \/ \E r \in DOMAIN hll, o \in DOMAIN hll : HLLMerge(r, o)

\* Two estimators, of equal or different precision.
InitHLL == InitHLLOf(Pair, HLLPrecisions, Pair)
SpecHLL == InitHLL /\ [][NextHLL]_vars

\* Three estimators of one precision, without histories.
InitHLL3 == InitHLLOf(Triple, {MinPrecision}, {})
SpecHLL3 == InitHLL3 /\ [][NextHLL]_vars

\* The ranks the registers of the estimators of the count specification
\* start from: the earlier adds of a long stream have raised every register
\* to one of these (0: no earlier add).
FillLevels(precision) == {0, 1, 24, 28, 29, 64 - precision}

\* An estimator all of whose registers earlier adds have raised to level.
HLLFilled(precision, level) ==
    [HLLNew(precision) EXCEPT
        !.registers = [i \in 0..(Pow2(precision) - 1) |-> level]]

\* Two estimators of one precision, late in a stream, without histories.
InitCount ==
    /\ sha256 = <<>>
    /\ sha1 \in [PlainInputs -> Hash64Values]
    /\ bf = <<>>
    /\ cms = <<>>
    /\ \E p \in HLLPrecisions : \E v \in FillLevels(p) :
          hll = [r \in Pair |-> HLLFilled(p, v)]
    /\ hist = <<>>
    /\ last = NoCall
    /\ err = "none"
    /\ nops = 0
    /\ heap = <<>>

NextCount ==
    \/ \E r \in DOMAIN hll, x \in HLLItems : HLLAdd(r, x)
    \/ \E r \in DOMAIN hll, o \in DOMAIN hll : HLLMerge(r, o)
    \/ \E r \in DOMAIN hll : HLLCountCall(r)

SpecCount == InitCount /\ [][NextCount]_vars

\* cms.estimate(item)
CMSEstimateCall(r, x) ==
    /\ nops < MaxOps
    /\ last' = [op |-> "estimate", recv |-> r, arg |-> x,
                result |-> CMSEstimate(cms[r], x)]
    /\ err' = "none"
    /\ nops' = nops + 1
    /\ UNCHANGED <<heap, sha256, sha1, bf, cms, hll, hist>>

(***************************************************************************)
(* The three structures right after construction, and their queries.       *)
(***************************************************************************)
\* A filter, a standard and a conservative sketch and an estimator, each
\* just constructed with valid parameters.  No value is hashed by sha1.
InitFresh ==
    /\ sha256 \in [SeededInputs(Items) -> 0..MaxHash]
    /\ sha1 = <<>>
    /\ \E c \in BFConfigs : bf = [r \in {"A"} |-> BFNew(c[1], c[2])]
    /\ \E c \in CMSConfigs :
          cms = [r \in Pair |->
                   CMSNew(IF r = "A" THEN "standard" ELSE "conservative", c[1], c[2])]
    /\ \E p \in HLLPrecisions : hll = [r \in {"A"} |-> HLLNew(p)]
    /\ hist = <<>>
    /\ last = NoCall
    /\ err = "none"
    /\ nops = 0
    /\ heap = <<>>

NextFresh ==
    \/ \E r \in DOMAIN bf, x \in Items :
          BFQuery(r, "contains", x) \/ BFQuery(r, "__contains__", x)
    \/ \E r \in DOMAIN cms, x \in CMSItems : CMSEstimateCall(r, x)
    \/ \E r \in DOMAIN hll : HLLCountCall(r)

SpecFresh == InitFresh /\ [][NextFresh]_vars

(***************************************************************************)
(* One structure of any of the three classes, its add and its queries.     *)
(***************************************************************************)
\* A filter, or a sketch of either class, or an estimator.
InitQueries ==
    \/ InitBFOps
    \/ \E kind \in {"standard", "conservative"} : InitCMSOf(kind, {"A"}, {CMSBase}, {})
    \/ InitHLLOf({"A"}, HLLPrecisions, {})

NextQueries ==
    \/ \E r \in DOMAIN bf, x \in Items : BFAdd(r, x)
    \/ \E r \in DOMAIN bf, x \in Items : BFQuery(r, "contains", x)
    \/ \E r \in DOMAIN bf :
          \/ BFQuery(r, "utilization", "-")
          \/ BFQuery(r, "actual_false_positive_rate", "-")
    \/ \E r \in DOMAIN cms, x \in CMSItems, c \in PosCounts : CMSAdd(r, x, c)
    \/ \E r \in DOMAIN cms, x \in CMSItems : CMSEstimateCall(r, x)
    \/ \E r \in DOMAIN hll, x \in HLLItems : HLLAdd(r, x)
    \/ \E r \in DOMAIN hll : HLLCountCall(r)

SpecQueries == InitQueries /\ [][NextQueries]_vars

(***************************************************************************)
(* Objects by reference.  self.table is a list of row lists and            *)
(* self.registers a list: an attribute holds the address of a list object, *)
(* and add and merge assign to elements of the lists of self.              *)
(***************************************************************************)
\* The addresses of the lists __init__ allocates for the object named r.
RegistersAddr(r) == <<r, "registers", 0>>
TableAddr(r) == <<r, "table", 0>>
RowAddr(r, i) == <<r, "row", i>>

\* The list objects a new sketch or estimator owns: [[0] * width for _ in
\* range(depth)] and [0] * m.
CMSLists(r, self) ==
    {TableAddr(r)} \cup {RowAddr(r, i) : i \in DOMAIN self.table}
HLLLists(r) == {RegistersAddr(r)}

\* The sketch bound to r with its lists read through the heap, as cs and h
\* hold them.
CMSValueIn(cs, h, r) ==
    [cs[r] EXCEPT !.table = [i \in DOMAIN h[cs[r].table] |-> h[h[cs[r].table][i]]]]
\* The estimator bound to r with its list read through the heap.
HLLValueIn(hs, h, r) == [hs[r] EXCEPT !.registers = h[hs[r].registers]]

\* sketch.add(item, count): self.table[i][col] += count assigns to an
\* element of row list i of self; self.total_count is rebound.
RefCMSAdd(r, x, c) ==
    LET new == CMSAdded(CMSValueIn(cms, heap, r), x, c)
        rows == heap[cms[r].table]
    IN  /\ nops < MaxOps
        /\ heap' = [a \in DOMAIN heap |->
                       IF \E i \in DOMAIN rows : rows[i] = a
                       THEN new.table[CHOOSE i \in DOMAIN rows : rows[i] = a]
                       ELSE heap[a]]
        /\ cms' = [cms EXCEPT ![r].total_count = new.total_count]
        /\ last' = [op |-> "add", recv |-> r, arg |-> x]
        /\ err' = "none"
        /\ nops' = nops + 1
        /\ UNCHANGED <<sha256, sha1, bf, hll, hist>>

\* sketch.merge(other): self.table[i][j] += other.table[i][j] assigns to
\* the elements of the row lists of self.
RefCMSMerge(r, o) ==
    LET out == CMSMergeOutcome(CMSValueIn(cms, heap, r), CMSValueIn(cms, heap, o))
        rows == heap[cms[r].table]
    IN  /\ nops < MaxOps
        /\ heap' = [a \in DOMAIN heap |->
                       IF \E i \in DOMAIN rows : rows[i] = a
                       THEN out.obj.table[CHOOSE i \in DOMAIN rows : rows[i] = a]
                       ELSE heap[a]]
        /\ cms' = [cms EXCEPT ![r].total_count = out.obj.total_count]
        /\ last' = [op |-> "merge", recv |-> r, arg |-> o]
        /\ err' = out.err
        /\ nops' = nops + 1
        /\ UNCHANGED <<sha256, sha1, bf, hll, hist>>

\* hll.add(value): self.registers[bucket_idx] = max(...) assigns to an
\* element of the list of self.
RefHLLAdd(r, x) ==
    /\ nops < MaxOps
    /\ heap' = [heap EXCEPT ![hll[r].registers] =
                   HLLAdded(HLLValueIn(hll, heap, r), x).registers]
    /\ last' = [op |-> "add", recv |-> r, arg |-> x]
    /\ err' = "none"
    /\ nops' = nops + 1
    /\ UNCHANGED <<sha256, sha1, bf, cms, hll, hist>>

\* Mutant of RefHLLMerge: the receiver takes over the argument's list
\* (self.registers = other.registers) after the element-wise maximum.
RefHLLMergeRebind(r, o) ==
    LET out == HLLMergeOutcome(HLLValueIn(hll, heap, r), HLLValueIn(hll, heap, o)) IN
    /\ nops < MaxOps
    /\ heap' = [heap EXCEPT ![hll[o].registers] = out.obj.registers]
    /\ hll' = [hll EXCEPT ![r].registers = hll[o].registers]
    /\ last' = [op |-> "merge", recv |-> r, arg |-> o]
    /\ err' = out.err
    /\ nops' = nops + 1
    /\ UNCHANGED <<sha256, sha1, bf, cms, hist>>

\* hll.merge(other): self.registers[i] = max(self.registers[i],
\* other.registers[i]) assigns to the elements of the list of self.
RefHLLMerge(r, o) ==
    LET out == HLLMergeOutcome(HLLValueIn(hll, heap, r), HLLValueIn(hll, heap, o)) IN
    /\ nops < MaxOps
    /\ heap' = [heap EXCEPT ![hll[r].registers] = out.obj.registers]
    /\ last' = [op |-> "merge", recv |-> r, arg |-> o]
    /\ err' = out.err
    /\ nops' = nops + 1
    /\ UNCHANGED <<sha256, sha1, bf, cms, hll, hist>>

\* Two standard sketches of one shape, each with the lists its __init__
\* allocated.
InitRefCMS ==
    /\ sha256 \in [SeededInputs(CMSItems) -> 0..MaxHash]
    /\ sha1 = <<>>
    /\ bf = <<>>
    /\ hll = <<>>
    /\ LET new == CMSNew("standard", CMSBase[1], CMSBase[2]) IN
        /\ cms = [r \in Pair |-> [new EXCEPT !.table = TableAddr(r)]]
        /\ heap = [a \in UNION {CMSLists(r, new) : r \in Pair} |->
                      IF a[2] = "table"
                      THEN [i \in DOMAIN new.table |-> RowAddr(a[1], i)]
                      ELSE new.table[a[3]]]
    /\ hist = <<>>
    /\ last = NoCall
    /\ err = "none"
    /\ nops = 0

\* Two estimators of one precision, each with the list its __init__
\* allocated.
InitRefHLL ==
    /\ sha256 = <<>>
    /\ sha1 \in [PlainInputs -> Hash64Values]
    /\ bf = <<>>
    /\ cms = <<>>
    /\ hll = [r \in Pair |-> [HLLNew(MinPrecision) EXCEPT !.registers = RegistersAddr(r)]]
    /\ heap = [a \in UNION {HLLLists(r) : r \in Pair} |-> HLLNew(MinPrecision).registers]
    /\ hist = <<>>
    /\ last = NoCall
    /\ err = "none"
    /\ nops = 0

InitRefs == InitRefCMS \/ InitRefHLL

NextRefs ==
    \/ \E r \in DOMAIN cms, x \in CMSItems, c \in PosCounts : RefCMSAdd(r, x, c)
    \/ \E r \in DOMAIN cms, o \in DOMAIN cms : RefCMSMerge(r, o)
    \/ \E r \in DOMAIN hll, x \in HLLItems : RefHLLAdd(r, x)
    \/ \E r \in DOMAIN hll, o \in DOMAIN hll : RefHLLMerge(r, o)

SpecRefs == InitRefs /\ [][NextRefs]_vars

(***************************************************************************)
(* Properties                                                              *)
(***************************************************************************)

\* A call of method op was just made on receiver r with argument a.
Called(op, r, a) == last.op = op /\ last.recv = r /\ last.arg = a

\* C1 (SpecBF): no false negatives.  In every reachable state, every item
\* that was added to a filter at any earlier point is reported present by
\* contains and by the in operator, whatever was added after it.
C1_NoFalseNegatives ==
    \A r \in BFNames : \A x \in HistItems(hist[r]) :
        BFContains(bf[r], x) /\ BFIn(x, bf[r])

\* C1 witness: a filter that received both "a" and "1", with the last call
\* an add, and that still has a clear bit (so contains can answer false).
C1_Witness ==
    \E r \in BFNames :
        /\ {StrA, Str1} \subseteq HistItems(hist[r])
        /\ last.op = "add" /\ last.recv = r
        /\ \E i \in DOMAIN bf[r].bit_array : bf[r].bit_array[i] = 0

\* C2 (SpecCMS): a standard sketch never underestimates.  After any calls
\* with counts >= 1, estimate(x) is at least the sum of the counts added
\* for x, for every item x.
C2_StandardNeverUnderestimates ==
    \A r \in DOMAIN cms : cms[r].kind = "standard" =>
        \A x \in CMSItems : CMSEstimate(cms[r], x) >= TrueCount(hist[r], x)

\* C2 witness: a sketch that received an add with count 2 and in which a
\* collision with another item in every row makes the estimate of the
\* added item "a" exceed its true count.
C2_Witness ==
    \E r \in DOMAIN cms, x \in CMSItems :
        /\ cms[r].kind = "standard"
        /\ \E i \in 1..Len(hist[r]) : hist[r][i][2] = 2
        /\ x = StrA
        /\ TrueCount(hist[r], x) > 0
        /\ CMSEstimate(cms[r], x) > TrueCount(hist[r], x)

\* C3 (SpecCCMS): a conservative sketch never underestimates.  After any
\* calls with counts >= 1, estimate(x) is at least the sum of the counts
\* added for x, for every item x.
C3_ConservativeNeverUnderestimates ==
    \A r \in DOMAIN cms : cms[r].kind = "conservative" =>
        \A x \in CMSItems : CMSEstimate(cms[r], x) >= TrueCount(hist[r], x)

\* C4 (SpecCMS): a merge of sketches whose width or depth differ raises,
\* and leaves the receiver (every counter and total_count), and every
\* other sketch, as before the call.
C4_MergeMismatchRejected ==
    [][\A r \in DOMAIN cms, o \in DOMAIN cms :
          (/\ nops' = nops + 1
           /\ last'.op = "merge" /\ last'.recv = r /\ last'.arg = o
           /\ (cms[r].width # cms[o].width \/ cms[r].depth # cms[o].depth))
          => (/\ err' = "ValueError"
              /\ cms'[r].table = cms[r].table
              /\ cms'[r].total_count = cms[r].total_count
              /\ cms' = cms)]_vars

\* C4 witness: a merge was refused between two sketches that both hold
\* counts.
C4_Witness ==
    \E r \in DOMAIN cms, o \in DOMAIN cms :
        /\ Called("merge", r, o)
        /\ err = "ValueError"
        /\ cms[r].total_count > 0
        /\ cms[o].total_count > 0

\* C5 (SpecHLL): a merge of estimators whose precision differs raises, and
\* leaves the receiver (every register, precision, m and alpha), and every
\* other estimator, as before the call.
C5_MergePrecisionMismatchRejected ==
    [][\A r \in DOMAIN hll, o \in DOMAIN hll :
          (/\ nops' = nops + 1
           /\ last'.op = "merge" /\ last'.recv = r /\ last'.arg = o
           /\ hll[r].precision # hll[o].precision)
          => (/\ err' = "ValueError"
              /\ hll'[r].registers = hll[r].registers
              /\ hll'[r].precision = hll[r].precision
              /\ hll'[r].m = hll[r].m
              /\ hll'[r].alpha = hll[r].alpha
              /\ hll' = hll)]_vars

\* C5 witness: a merge was refused between two estimators that both hold
\* a non-zero register.
C5_Witness ==
    \E r \in DOMAIN hll, o \in DOMAIN hll :
        /\ Called("merge", r, o)
        /\ err = "ValueError"
        /\ \E i \in DOMAIN hll[r].registers : hll[r].registers[i] > 0
        /\ \E i \in DOMAIN hll[o].registers : hll[o].registers[i] > 0

\* Two sketches a merge accepts.
CMSCompatible(a, b) == a.width = b.width /\ a.depth = b.depth

\* Equal table and total_count.
CMSSameState(a, b) == a.table = b.table /\ a.total_count = b.total_count

\* C6 (SpecCMS3): for standard sketches A, B, C of identical width and depth
\* in any reachable states, merge is commutative and associative on the
\* table and total_count.
C6_CMSMergeCommutativeAssociative ==
    /\ \A a \in DOMAIN cms, b \in DOMAIN cms :
          CMSCompatible(cms[a], cms[b]) =>
              /\ CMSMergeOutcome(cms[a], cms[b]).err = "none"
              /\ CMSSameState(CMSMergeOutcome(cms[a], cms[b]).obj,
                              CMSMergeOutcome(cms[b], cms[a]).obj)
    /\ \A a \in DOMAIN cms : \A b \in DOMAIN cms \ {a} : \A c \in DOMAIN cms \ {a, b} :
          (CMSCompatible(cms[a], cms[b]) /\ CMSCompatible(cms[b], cms[c])) =>
              CMSSameState(
                CMSMergeOutcome(CMSMergeOutcome(cms[a], cms[b]).obj, cms[c]).obj,
                CMSMergeOutcome(cms[a], CMSMergeOutcome(cms[b], cms[c]).obj).obj)

\* C6 witness: three sketches of one shape whose tables are non-zero and
\* pairwise different.
C6_Witness ==
    /\ CMSCompatible(cms["A"], cms["B"]) /\ CMSCompatible(cms["B"], cms["C"])
    /\ \A r \in Triple : cms[r].total_count > 0
    /\ cms["A"].table # cms["B"].table
    /\ cms["B"].table # cms["C"].table
    /\ cms["A"].table # cms["C"].table

\* C7 (SpecHLL3): a merge of estimators of equal precision makes every
\* register of the receiver the maximum of the two operands' registers; the
\* result is the same whichever operand receives (commutative) and however
\* three operands are grouped (associative), and merging an estimator with
\* an equal copy of itself changes nothing.
C7_HLLMergeIsRegisterMax ==
    /\ \A a \in DOMAIN hll, b \in DOMAIN hll :
          hll[a].precision = hll[b].precision =>
              LET ab == HLLMergeOutcome(hll[a], hll[b])
              IN  /\ ab.err = "none"
                  /\ DOMAIN ab.obj.registers = DOMAIN hll[a].registers
                  /\ \A i \in DOMAIN hll[a].registers :
                        /\ ab.obj.registers[i] >= hll[a].registers[i]
                        /\ ab.obj.registers[i] >= hll[b].registers[i]
                        /\ ab.obj.registers[i]
                             \in {hll[a].registers[i], hll[b].registers[i]}
                  /\ ab.obj.registers = HLLMergeOutcome(hll[b], hll[a]).obj.registers
    /\ \A a \in DOMAIN hll, b \in DOMAIN hll, c \in DOMAIN hll :
          (hll[a].precision = hll[b].precision /\ hll[b].precision = hll[c].precision) =>
              HLLMergeOutcome(HLLMergeOutcome(hll[a], hll[b]).obj, hll[c]).obj.registers
                = HLLMergeOutcome(hll[a], HLLMergeOutcome(hll[b], hll[c]).obj).obj.registers
    /\ \A a \in DOMAIN hll : HLLMergeOutcome(hll[a], hll[a]).obj = hll[a]

\* C7 witness: three estimators of one precision whose register arrays are
\* pairwise different and none of which is empty.
C7_Witness ==
    /\ hll["A"].precision = hll["B"].precision
    /\ hll["B"].precision = hll["C"].precision
    /\ \A r \in Triple : \E i \in DOMAIN hll[r].registers : hll[r].registers[i] > 0
    /\ hll["A"].registers # hll["B"].registers
    /\ hll["B"].registers # hll["C"].registers
    /\ hll["A"].registers # hll["C"].registers

RECURSIVE HLLReplay(_, _)
\* A structure after the add calls of history h, in order.
HLLReplay(self, h) ==
    IF h = <<>> THEN self ELSE HLLReplay(HLLAdded(self, Head(h)[1]), Tail(h))

\* The orders a history can be replayed in: the sequences holding each of
\* its entries as many times as it does.
Orders(h) ==
    LET entries == {h[i] : i \in 1..Len(h)}
        Times(s, e) == Cardinality({i \in 1..Len(h) : s[i] = e})
    IN  {s \in [1..Len(h) -> entries] : \A e \in entries : Times(s, e) = Times(h, e)}

\* C8 (SpecHLL): merge computes the union.  hist[r] is what r received,
\* a successful merge appending the argument's history to the receiver's;
\* the estimator always equals (registers, m, alpha, precision: all that
\* count() reads) a fresh one of its precision to which the values of its
\* history were added, in any order.
C8_HLLMergeIsUnion ==
    \A r \in DOMAIN hll : \A h \in Orders(hist[r]) :
        HLLReplay(HLLNew(hll[r].precision), h) = hll[r]

\* C8 witness: a successful merge into a receiver from another estimator,
\* both having received values, after which their registers differ.
C8_Witness ==
    \E r \in DOMAIN hll, o \in DOMAIN hll :
        /\ Called("merge", r, o) /\ err = "none" /\ r # o
        /\ hist[o] # <<>>
        /\ Len(hist[r]) > Len(hist[o])
        /\ HistItems(hist[r]) \ HistItems(hist[o]) # {}
        /\ hll[r].registers # hll[o].registers

RECURSIVE CMSReplay(_, _)
\* A sketch after the add calls of history h, in order.
CMSReplay(self, h) ==
    IF h = <<>> THEN self
    ELSE CMSReplay(CMSAdded(self, Head(h)[1], Head(h)[2]), Tail(h))

\* C9 (SpecCMS): merge sums streams.  hist[r] is what r received, a
\* successful merge appending the argument's history S2 to the receiver's
\* S1; the table and total_count of a standard sketch always equal those of
\* a fresh sketch that received its history in order, and estimate(x) is at
\* least the total count of x in it.
C9_CMSMergeSumsStreams ==
    \A r \in DOMAIN cms :
        LET fresh == CMSNew(cms[r].kind, cms[r].epsilon, cms[r].delta)
            replayed == CMSReplay(fresh, hist[r])
        IN  /\ CMSSameState(cms[r], replayed)
            /\ \A x \in CMSItems : CMSEstimate(cms[r], x) >= TrueCount(hist[r], x)

\* C9 witness: a successful merge into a receiver from another sketch, both
\* having received adds before it.
C9_Witness ==
    \E r \in DOMAIN cms, o \in DOMAIN cms :
        /\ Called("merge", r, o) /\ err = "none" /\ r # o
        /\ hist[o] # <<>>
        /\ Len(hist[r]) > Len(hist[o])
        /\ cms[o].total_count > 0
        /\ cms[r].total_count > cms[o].total_count
        /\ cms[r].table # cms[o].table

\* C10 (SpecBF): BloomFilter has a merge operation on filters of identical
\* size and num_hashes that succeeds and after which every item added to
\* either operand is reported present by the receiver.
C10_BloomFilterMergeIsOr ==
    \A r \in BFNames, o \in BFNames :
        (/\ Called("merge", r, o)
         /\ bf[r].size = bf[o].size
         /\ bf[r].num_hashes = bf[o].num_hashes)
        => (/\ err = "none"
            /\ \A x \in HistItems(hist[r]) \cup HistItems(hist[o]) :
                  BFContains(bf[r], x))

RECURSIVE Overestimation(_, _, _)
\* The sum over the keys of estimate minus actual count.
Overestimation(self, h, keys) ==
    IF keys = {} THEN 0
    ELSE LET x == CHOOSE k \in keys : TRUE
         IN  (CMSEstimate(self, x) - TrueCount(h, x))
               + Overestimation(self, h, keys \ {x})

\* C11 (SpecTwin): after any sequence of add calls with counts >= 1 applied
\* alike to a standard sketch A and a conservative sketch B of the same
\* epsilon and delta, B's estimate of every item is at most A's, and B's
\* total overestimation is at most A's.
C11_ConservativeAtMostStandard ==
    /\ \A x \in CMSItems : CMSEstimate(cms["B"], x) <= CMSEstimate(cms["A"], x)
    /\ Overestimation(cms["B"], hist["B"], CMSItems)
         <= Overestimation(cms["A"], hist["A"], CMSItems)

\* C11 witness: both sketches received the same three adds, one of them
\* with count 2, and the conservative estimate of an item is strictly below
\* the standard one.
C11_Witness ==
    /\ cms["A"].kind = "standard" /\ cms["B"].kind = "conservative"
    /\ hist["A"] = hist["B"] /\ Len(hist["A"]) = 3
    /\ \E i \in 1..Len(hist["A"]) : hist["A"][i][2] = 2
    /\ \E x \in CMSItems : CMSEstimate(cms["B"], x) < CMSEstimate(cms["A"], x)

\* The value count() returned is a finite number >= 0.
CountFiniteNonNegative(res) ==
    /\ res.err = "none"
    /\ BigLess(BigPow2(0), res.raw.den)
    /\ res.regime = "small" => res.milli >= 0
    /\ res.regime = "large" => BigLess(res.scaled, res.raw.den)

\* C12 (SpecCount): count() cannot fail.  Whatever the registers hold
\* (anything in 0..64-precision) after adds and successful merges, a call
\* of count() raises nothing and returns a finite number >= 0, in each of
\* its three regimes.
C12_CountCannotFail ==
    last.op = "count" => (err = "none" /\ CountFiniteNonNegative(last.result))

\* raw_estimate <= 2.5 * m, for raw_estimate = raw.num / raw.den.
RawAtMostSmallRange(raw, m) == BigLeq(BigScale(raw.num, 2), BigScale(raw.den, 5 * m))

\* raw_estimate <= 2^32 / 30, for raw_estimate / 2^32 = scaled / raw.den.
RawAtMostMediumRange(raw, scaled) == BigLeq(BigScale(scaled, 30), raw.den)

\* C21 (SpecCount): count() computes E = alpha * m^2 / sum 2^(-registers[j])
\* and returns exactly one of three results, tested in this order:
\* m * ln(m / zeros) iff E <= 2.5 * m and some register is 0; otherwise E
\* itself if E <= 2^32 / 30; otherwise -2^32 * ln(1 - E / 2^32).  With
\* E <= 2.5 * m and no register 0 the result is E.
C21_CountRegimes ==
    last.op = "count" =>
        LET self == hll[last.recv]
            res == last.result
            zeros == Cardinality({j \in DOMAIN self.registers : self.registers[j] = 0})
            E == [num |-> BigScale(BigPow2(2 * self.precision + RankWidth), self.alpha[1]),
                  den |-> BigScale(HLLInvSum(self), self.alpha[2])]
            small == RawAtMostSmallRange(E, self.m) /\ zeros >= 1
            medium == ~small /\ RawAtMostMediumRange(E, res.scaled)
        IN  /\ err = "none"
            /\ res.raw = E
            /\ BigScale(BigScale(BigScale(res.scaled, 4), LimbBase), LimbBase) = E.num
            /\ (res.regime = "small") <=> small
            /\ (res.regime = "medium") <=> medium
            /\ (res.regime = "large") <=> (~small /\ ~medium)
            /\ small => res.milli = self.m * (LnNatMilli[self.m] - LnNatMilli[zeros])
            /\ (RawAtMostSmallRange(E, self.m) /\ zeros = 0) => res.regime = "medium"

\* C22 (SpecHLL): add(value) changes at most one register, the one indexed
\* by the low precision bits of the 64-bit hash (in 0..m-1); it becomes
\* max(old, rank), where rank is the 1-indexed position, from the top, of
\* the first set bit among the remaining 64 - precision bits, or
\* 64 - precision if they are all zero.  Every register stays in
\* 0..64-precision and the register of the added value's bucket is >= 1.
C22_AddUpdatesOneRegister ==
    [][\A r \in DOMAIN hll : \A x \in HLLItems :
          (/\ nops' = nops + 1
           /\ last'.op = "add" /\ last'.recv = r /\ last'.arg = x)
          => LET self == hll[r]
                 h == HLLHash(x)
                 width == 64 - self.precision
                 bucket == h.lo % (2 ^ self.precision)
                 setbits == {k \in 1..width : Bit(h, 64 - k) = 1}
                 rank == IF setbits = {} THEN width ELSE Min(setbits)
             IN  /\ bucket \in 0..(self.m - 1)
                 /\ hll'[r].registers[bucket] =
                        (IF self.registers[bucket] >= rank
                         THEN self.registers[bucket] ELSE rank)
                 /\ \A j \in DOMAIN self.registers \ {bucket} :
                        hll'[r].registers[j] = self.registers[j]
                 /\ DOMAIN hll'[r].registers = DOMAIN self.registers
                 /\ \A j \in DOMAIN self.registers :
                        hll'[r].registers[j] \in 0..width
                 /\ hll'[r].registers[bucket] >= 1
                 /\ \A o \in DOMAIN hll \ {r} : hll'[o] = hll[o]]_vars

\* C22 witness: the last add hit a bucket whose register an earlier add of
\* another value had already raised above the rank of the value added: the
\* register kept the larger value.
C22_Witness ==
    \E r \in DOMAIN hll :
        /\ last.op = "add" /\ last.recv = r
        /\ Len(hist[r]) >= 2
        /\ hll[r].registers[HLLBucket(hll[r], last.arg)] > HLLRank(hll[r], last.arg)
        /\ HLLRank(hll[r], last.arg) = 1

\* C23 (SpecCCMS): the conservative add(item, count) takes the minimum m0
\* of the item's depth counters as they are before the call, and adds count
\* to exactly those of the item's counters that were m0; the item's
\* counters above m0 and every other cell are unchanged, and at least one
\* counter is incremented.
C23_ConservativeAddWritesMinimaOnly ==
    [][\A r \in DOMAIN cms : \A x \in CMSItems : \A c \in PosCounts :
          (/\ nops' = nops + 1
           /\ last'.op = "add" /\ last'.recv = r /\ last'.arg = x
           /\ hist'[r] = Append(hist[r], <<x, c>>)
           /\ cms[r].kind = "conservative")
          => LET old == cms[r].table
                 new == cms'[r].table
                 rows == DOMAIN old
                 col(i) == CMSHash(cms[r], x, i)
                 m0 == CHOOSE v \in {old[i][col(i)] : i \in rows} :
                          \A i \in rows : v <= old[i][col(i)]
             IN  /\ DOMAIN new = rows
                 /\ \A i \in rows :
                       /\ DOMAIN new[i] = DOMAIN old[i]
                       /\ \A j \in DOMAIN old[i] :
                             new[i][j] = (IF j = col(i) /\ old[i][j] = m0
                                          THEN old[i][j] + c ELSE old[i][j])
                 /\ \E i \in rows : new[i][col(i)] = m0 + c /\ old[i][col(i)] = m0
                 /\ \A o \in DOMAIN cms \ {r} : cms'[o] = cms[o]]_vars

\* C23 witness: the last add found the item's counters unequal (another
\* item shares one of them), so that one was raised and one left alone.
C23_Witness ==
    \E r \in DOMAIN cms :
        /\ cms[r].kind = "conservative"
        /\ last.op = "add" /\ last.recv = r
        /\ Len(hist[r]) >= 2
        /\ \E i \in DOMAIN cms[r].table : \E k \in DOMAIN cms[r].table :
              LET x == last.arg
                  c == hist[r][Len(hist[r])][2]
                  est == CMSEstimate(cms[r], x)
              IN  /\ i # k
                  /\ cms[r].table[i][CMSHash(cms[r], x, i)] = est
                  /\ cms[r].table[k][CMSHash(cms[r], x, k)] > est
                  /\ TrueCount(hist[r], x) = c

\* C28 (SpecCCMS): after the conservative add(item, c) with c >= 1, every
\* one of the item's counters is at least the item's previous minimum plus
\* c, so estimate(item) is its value before the call plus c.
C28_ConservativeAddRaisesEstimateByCount ==
    [][\A r \in DOMAIN cms : \A x \in CMSItems : \A c \in PosCounts :
          (/\ nops' = nops + 1
           /\ last'.op = "add" /\ last'.recv = r /\ last'.arg = x
           /\ hist'[r] = Append(hist[r], <<x, c>>)
           /\ cms[r].kind = "conservative")
          => /\ \A i \in DOMAIN cms[r].table :
                   cms'[r].table[i][CMSHash(cms[r], x, i)] >= CMSEstimate(cms[r], x) + c
             /\ CMSEstimate(cms'[r], x) = CMSEstimate(cms[r], x) + c]_vars

\* C24 (SpecCMSInt): the standard add(item, count) tests nothing about
\* count.  For a positive, zero or negative count it raises nothing, adds
\* count to the item's column in each of the depth rows and to total_count,
\* and changes no other cell; add(item, 0) leaves the whole state as it
\* was; a negative count lowers the item's estimate by its amount (to the
\* net count).
C24_StandardAddAcceptsAnyCount ==
    [][\A r \in DOMAIN cms : \A x \in CMSItems : \A c \in IntCounts :
          (/\ nops' = nops + 1
           /\ last'.op = "add" /\ last'.recv = r /\ last'.arg = x
           /\ hist'[r] = Append(hist[r], <<x, c>>))
          => LET old == cms[r].table
                 new == cms'[r].table
             IN  /\ err' = "none"
                 /\ DOMAIN new = DOMAIN old
                 /\ \A i \in DOMAIN old :
                       /\ DOMAIN new[i] = DOMAIN old[i]
                       /\ \A j \in DOMAIN old[i] :
                             new[i][j] = (IF j = CMSHash(cms[r], x, i)
                                          THEN old[i][j] + c ELSE old[i][j])
                 /\ cms'[r].total_count = cms[r].total_count + c
                 /\ \A o \in DOMAIN cms \ {r} : cms'[o] = cms[o]
                 /\ c = 0 => cms' = cms
                 /\ CMSEstimate(cms'[r], x) = CMSEstimate(cms[r], x) + c]_vars

\* C24 witness: an item was added with count 2 and then with count -1,
\* and nothing else: its estimate is the net count 1.
C24_Witness ==
    \E r \in DOMAIN cms :
        /\ last.op = "add" /\ last.recv = r
        /\ hist[r] = <<<<last.arg, 2>>, <<last.arg, -1>>>>
        /\ CMSEstimate(cms[r], last.arg) = 1
        /\ cms[r].total_count = 1

\* C25 (SpecCMSInt): negative counts break the never-underestimates
\* invariant, and only they do.  Whenever estimate(x) is below the true,
\* non-negative count of a key x, some add in the sketch's history had a
\* negative count (and such a state is reachable: C25_Witness).
C25_UnderestimateNeedsNegativeCount ==
    \A r \in DOMAIN cms : \A x \in CMSItems :
        (TrueCount(hist[r], x) >= 0 /\ CMSEstimate(cms[r], x) < TrueCount(hist[r], x))
        => \E k \in 1..Len(hist[r]) : hist[r][k][2] < 0

\* C25 witness: x was added with count 2, then another key sharing all of
\* x's counters with count -1: estimate(x) = 1 is below x's true count 2.
C25_Witness ==
    \E r \in DOMAIN cms : \E x \in CMSItems : \E y \in CMSItems \ {x} :
        /\ hist[r] = <<<<x, 2>>, <<y, -1>>>>
        /\ TrueCount(hist[r], x) = 2
        /\ CMSEstimate(cms[r], x) = 1

RECURSIVE RowSumFrom(_, _)
\* The sum of the counters of a row of the table, from column j on.
RowSumFrom(row, j) ==
    IF j \notin DOMAIN row THEN 0 ELSE row[j] + RowSumFrom(row, j + 1)

\* C29 (SpecCMSInt): in every state of a standard sketch reached by adds
\* with any integer counts and by merges of standard sketches, the counters
\* of each row of table sum to total_count; so all rows have the same sum.
C29_RowSumsEqualTotal ==
    \A r \in DOMAIN cms : cms[r].kind = "standard" =>
        \A i \in DOMAIN cms[r].table :
            RowSumFrom(cms[r].table[i], 0) = cms[r].total_count

\* C29 witness: after adds of both signs and a merge, a sketch with two
\* rows holds a non-zero total in different columns of its rows.
C29_Witness ==
    \E r \in DOMAIN cms :
        /\ last.op = "merge" /\ last.recv = r /\ last.arg # r /\ err = "none"
        /\ cms[r].depth = 2
        /\ cms[r].total_count = 1
        /\ \E k \in 1..Len(hist[r]) : hist[r][k][2] < 0
        /\ cms[r].table[0] # cms[r].table[1]

RECURSIVE SumCounts(_)
\* The sum of the count arguments a history holds.
SumCounts(h) == IF h = <<>> THEN 0 ELSE Head(h)[2] + SumCounts(Tail(h))

\* C26 (SpecCMSMixed): for the standard and the conservative sketch,
\* total_count is the sum of the count arguments of the adds applied to the
\* sketch plus the total_count of every sketch successfully merged into it
\* (0 when fresh).  An add changes total_count by exactly count, also when
\* the conservative variant increments only some of the item's counters; a
\* successful merge adds the argument's total_count; a call on another
\* sketch changes nothing.
C26_TotalCountIsSumOfCounts ==
    [][\A r \in DOMAIN cms :
          /\ cms[r].total_count = SumCounts(hist[r])
          /\ cms'[r].total_count = SumCounts(hist'[r])
          /\ (nops' = nops + 1 /\ last'.recv = r /\ last'.op = "add") =>
                \E c \in IntCounts :
                   /\ hist'[r] = Append(hist[r], <<last'.arg, c>>)
                   /\ cms'[r].total_count = cms[r].total_count + c
          /\ (nops' = nops + 1 /\ last'.recv = r /\ last'.op = "merge") =>
                /\ err' = "none"
                /\ cms'[r].total_count =
                      cms[r].total_count + cms[last'.arg].total_count
          /\ (nops' = nops + 1 /\ last'.recv # r) =>
                cms'[r].total_count = cms[r].total_count]_vars

\* C26 witness: a conservative sketch whose two rows have different sums
\* (an add raised only one of the item's counters) but whose total_count is
\* the sum of the counts added, 4, has just been merged into the standard
\* sketch, whose total_count became 4.
C26_Witness ==
    \E r \in DOMAIN cms :
        /\ last.op = "merge" /\ last.recv = r /\ last.arg # r /\ err = "none"
        /\ cms[last.arg].kind = "conservative" /\ cms[last.arg].depth = 2
        /\ RowSumFrom(cms[last.arg].table[0], 0) # RowSumFrom(cms[last.arg].table[1], 0)
        /\ cms[last.arg].total_count = 4
        /\ cms[r].total_count = 4

\* The queries of the three classes.
QueryOps == {"contains", "actual_false_positive_rate", "utilization", "estimate", "count"}

\* C27 (SpecQueries): queries are pure.  contains,
\* actual_false_positive_rate, utilization, estimate and count leave every
\* field of every structure as it was, and a call that repeats the call
\* before it (same method, receiver and argument, so nothing was changed in
\* between) returns the same result.
C27_QueriesArePure ==
    [][(nops' = nops + 1 /\ last'.op \in QueryOps)
       => /\ bf' = bf /\ cms' = cms /\ hll' = hll
          /\ (last.op = last'.op /\ last.recv = last'.recv /\ last.arg = last'.arg)
                => (last'.result = last.result /\ err' = err)]_vars

\* C27 witness: a structure that has been added to was queried twice, and
\* the last query reports the addition (contains is True, utilization or
\* the false-positive rate or the estimate or the count is not 0).
C27_Witness ==
    /\ nops = 3
    /\ last.op \in QueryOps
    /\ \/ \E r \in DOMAIN bf : Len(hist[r]) = 1 /\ last.op = "contains" /\ last.result = TRUE
       \/ \E r \in DOMAIN cms : cms[r].total_count = 2 /\ last.op = "estimate" /\ last.result = 2
       \/ \E r \in DOMAIN hll :
             /\ last.op = "count" /\ last.result.zeros = hll[r].m - 1
             /\ last.result.milli > 0

\* The addresses reachable from the sketch or estimator bound to r.
CMSReach(cs, h, r) == {cs[r].table} \cup {h[cs[r].table][i] : i \in DOMAIN h[cs[r].table]}
HLLReach(hs, r) == {hs[r].registers}

\* C30 (SpecRefs): a successful merge whose argument is a distinct object
\* leaves the argument's table or registers and its total_count as they
\* were and makes the two structures share nothing: after every step the
\* lists of distinct objects are distinct, and an add on one object leaves
\* every other object's state as it was.
C30_MergeLeavesArgumentAndSharesNothing ==
    [][/\ \A r \in DOMAIN cms : \A o \in DOMAIN cms \ {r} :
             /\ (nops' = nops + 1 /\ last'.recv = r /\ last'.op \in {"merge", "add"})
                   => CMSValueIn(cms', heap', o) = CMSValueIn(cms, heap, o)
             /\ CMSReach(cms', heap', r) \cap CMSReach(cms', heap', o) = {}
       /\ \A r \in DOMAIN hll : \A o \in DOMAIN hll \ {r} :
             /\ (nops' = nops + 1 /\ last'.recv = r /\ last'.op \in {"merge", "add"})
                   => HLLValueIn(hll', heap', o) = HLLValueIn(hll, heap, o)
             /\ HLLReach(hll', r) \cap HLLReach(hll', o) = {}]_vars

\* C30 witness: an object that had been added to has just merged, with
\* success, another object that had been added to; the argument still
\* holds only its own add.
C30_Witness ==
    /\ nops = 3
    /\ last.op = "merge" /\ last.arg # last.recv /\ err = "none"
    /\ \/ /\ last.recv \in DOMAIN cms
          /\ CMSValueIn(cms, heap, last.arg).total_count = 1
          /\ CMSValueIn(cms, heap, last.recv).total_count = 3
          /\ CMSValueIn(cms, heap, last.recv).table # CMSValueIn(cms, heap, last.arg).table
       \/ /\ last.recv \in DOMAIN hll
          /\ Cardinality({j \in DOMAIN heap[RegistersAddr(last.arg)] :
                             heap[RegistersAddr(last.arg)][j] > 0}) = 1
          /\ Cardinality({j \in DOMAIN heap[RegistersAddr(last.recv)] :
                             heap[RegistersAddr(last.recv)][j] > 0}) = 2

\* The operations that only read the filter.
BFQueries ==
    {"contains", "__contains__", "__len__", "utilization",
     "actual_false_positive_rate"}

\* C16 (SpecFresh): the empty-structure baseline.  Right after
\* construction with valid parameters, and after any queries, contains(x)
\* and x in bf are false for every probe x, estimate(x) is 0 for every x and
\* total_count is 0, and count() raises nothing and returns 0.
C16_EmptyBaseline ==
    /\ \A r \in DOMAIN bf : \A x \in Items :
          ~BFContains(bf[r], x) /\ ~BFIn(x, bf[r])
    /\ \A r \in DOMAIN cms :
          /\ cms[r].total_count = 0
          /\ \A x \in CMSItems : CMSEstimate(cms[r], x) = 0
    /\ \A r \in DOMAIN hll :
          LET res == HLLCount(hll[r])
          IN  res.err = "none" /\ res.regime = "small" /\ res.milli = 0
    /\ last.op \in {"contains", "__contains__"} => last.result = FALSE
    /\ last.op = "estimate" => last.result = 0
    /\ last.op = "count" => (err = "none" /\ last.result.milli = 0)

\* C16 witness: three queries were made, the last one count() on an
\* estimator all of whose registers are 0.
C16_Witness ==
    /\ nops = 3
    /\ last.op = "count"
    /\ last.result.zeros = hll[last.recv].m
    /\ \E r \in DOMAIN cms : cms[r].kind = "conservative"
    /\ \E r \in DOMAIN bf : \A i \in DOMAIN bf[r].bit_array : bf[r].bit_array[i] = 0

\* C19 (SpecCMSNew): CountMinSketch(epsilon, delta), of either class,
\* raises exactly when epsilon or delta is not strictly between 0 and 1; for
\* every valid pair the sketch has width = ceil(e / epsilon) >= 3,
\* depth = ceil(ln(1 / delta)) >= 1, exactly depth rows of width counters,
\* all 0, and total_count = 0.
C19_CMSConstruction ==
    last.op = "__init__" =>
        LET eps == last.arg[1]
            delta == last.arg[2]
            self == cms[last.recv]
        IN  /\ (err # "none") <=> ~(InUnitInterval(eps) /\ InUnitInterval(delta))
            /\ (InUnitInterval(eps) /\ InUnitInterval(delta)) =>
                  /\ self = last.result
                  /\ self.width >= 3
                  /\ self.depth >= 1
                  /\ DOMAIN self.table = 0..(self.depth - 1)
                  /\ \A i \in DOMAIN self.table :
                        /\ DOMAIN self.table[i] = 0..(self.width - 1)
                        /\ \A j \in DOMAIN self.table[i] : self.table[i][j] = 0
                  /\ self.total_count = 0

\* C20 (SpecHLLNew): HyperLogLog(precision) raises exactly when precision
\* is outside 4..16 (3 and 17 refused, 4 and 16 accepted), and then binds
\* no estimator; otherwise m = 2^precision, registers has exactly m entries,
\* all 0, and alpha is 0.673 for m = 16, 0.697 for m = 32, 0.709 for m = 64
\* and 0.7213 / (1 + 1.079 / m) for m >= 128.
C20_HLLConstruction ==
    [][\A r \in Pair, precision \in PrecisionArgs :
          (/\ nops' = nops + 1
           /\ last'.op = "__init__" /\ last'.recv = r /\ last'.arg = precision)
          => /\ (err' # "none") <=> (precision < 4 \/ precision > 16)
             /\ err' # "none" =>
                    /\ err' = "ValueError"
                    /\ hll'[r] = hll[r]
             /\ err' = "none" =>
                    LET self == hll'[r] IN
                    /\ self.precision = precision
                    /\ self.m = 2 ^ precision
                    /\ self.registers = [j \in 0..(self.m - 1) |-> 0]
                    /\ self.m = 16 => self.alpha = <<673, 1000>>
                    /\ self.m = 32 => self.alpha = <<697, 1000>>
                    /\ self.m = 64 => self.alpha = <<709, 1000>>
                    /\ self.m >= 128 =>
                          self.alpha = <<7213 * self.m, 10 * (1000 * self.m + 1079)>>]_vars

\* C20 witness: precision 16 was accepted on one name (65536 registers) and
\* precision 4 is held by the other.
C20_Witness ==
    \E r \in Pair : \E o \in Pair \ {r} :
        /\ last.op = "__init__" /\ last.recv = r /\ last.arg = MaxPrecision
        /\ err = "none"
        /\ hll[r] # Unbound /\ hll[r].m = 65536
        /\ hll[o] # Unbound /\ hll[o].m = 16

\* C17 (SpecBFNew): with expected_items >= 1, BloomFilter(n, p) raises
\* exactly when p is not strictly between 0 and 1 (0 and 1 included, never
\* clamped); it then raises ValueError before any attribute (size,
\* bit_array) is assigned, and binds no filter; otherwise the filter keeps
\* the rate it was given.
C17_RateValidatedFirst ==
    [][\A r \in BFNames, n \in ExpectedItemsArgs, pct \in RateArgs :
          (/\ nops' = nops + 1
           /\ last'.op = "__init__" /\ last'.recv = r /\ last'.arg = <<n, pct>>
           /\ n >= 1)
          => /\ (err' # "none") <=> ~(0 < pct /\ pct < 100)
             /\ ~(0 < pct /\ pct < 100) =>
                    /\ err' = "ValueError"
                    /\ last'.result = NoAttributes
                    /\ bf'[r] = bf[r]
             /\ (0 < pct /\ pct < 100) =>
                    /\ bf'[r] = last'.result
                    /\ bf'[r].false_positive_rate = pct
                    /\ bf'[r].expected_items = n]_vars

\* C17 witness: a construction with rate 1 (100 percent) was refused on a
\* name that an earlier, valid construction had bound.
C17_Witness ==
    \E r \in BFNames :
        /\ last.op = "__init__" /\ last.recv = r
        /\ last.arg[1] >= 1 /\ last.arg[2] = 100
        /\ err = "ValueError"
        /\ bf[r] # Unbound

\* C18 (SpecBFNew): BloomFilter(n, p) with n <= 0 fails, and every filter
\* construction returns has size >= 1, num_hashes >= 1, a bit_array of
\* exactly size bits all 0, and items_added = 0.
C18_ExpectedItemsValidated ==
    /\ (last.op = "__init__" /\ last.arg[1] <= 0) => err # "none"
    /\ \A r \in DOMAIN bf : bf[r] # Unbound =>
          /\ bf[r].size >= 1
          /\ bf[r].num_hashes >= 1
          /\ DOMAIN bf[r].bit_array = 0..(bf[r].size - 1)
          /\ \A i \in DOMAIN bf[r].bit_array : bf[r].bit_array[i] = 0
          /\ bf[r].items_added = 0

\* C13 (SpecBFOps): across every operation on a filter (add, the queries,
\* a call of merge), a bit that is 1 stays 1, and size, num_hashes and the
\* length of bit_array stay as constructed.
C13_BitsNeverClear ==
    [][\A r \in DOMAIN bf :
          /\ \A i \in DOMAIN bf[r].bit_array :
                bf[r].bit_array[i] = 1 => bf'[r].bit_array[i] = 1
          /\ bf'[r].size = bf[r].size
          /\ bf'[r].num_hashes = bf[r].num_hashes
          /\ DOMAIN bf'[r].bit_array = DOMAIN bf[r].bit_array
          /\ DOMAIN bf[r].bit_array = 0..(bf[r].size - 1)]_vars

\* C13 witness: a filter with a set bit and a clear bit received a further
\* add, of an item other than the first, and then a query.
C13_Witness ==
    \E r \in DOMAIN bf :
        /\ nops = 3 /\ last.op \in BFQueries /\ last.recv = r
        /\ Len(hist[r]) = 2 /\ hist[r][1][1] # hist[r][2][1]
        /\ \E i \in DOMAIN bf[r].bit_array : bf[r].bit_array[i] = 1
        /\ \E i \in DOMAIN bf[r].bit_array : bf[r].bit_array[i] = 0

\* C14 (SpecHLL): across every add and every merge, successful or refused,
\* no register of any estimator decreases, and precision, m, alpha and the
\* number of registers stay as constructed.
C14_RegistersNeverDecrease ==
    [][\A r \in DOMAIN hll :
          /\ DOMAIN hll'[r].registers = DOMAIN hll[r].registers
          /\ \A i \in DOMAIN hll[r].registers :
                hll'[r].registers[i] >= hll[r].registers[i]
          /\ hll'[r].precision = hll[r].precision
          /\ hll'[r].m = hll[r].m
          /\ hll'[r].alpha = hll[r].alpha]_vars

\* C14 witness: a successful merge from another estimator left the
\* receiver with a register above the rank of a value the receiver itself
\* was given for that register.
C14_Witness ==
    \E r \in DOMAIN hll, o \in DOMAIN hll :
        /\ Called("merge", r, o) /\ err = "none" /\ r # o
        /\ \E x \in HLLItems :
              /\ hist[r] # <<>> /\ hist[r][1][1] = x
              /\ HLLRank(hll[r], x) < hll[r].registers[HLLBucket(hll[r], x)]
              /\ hll[r].registers[HLLBucket(hll[r], x)]
                   = hll[o].registers[HLLBucket(hll[r], x)]

\* C15 (SpecBFOps): add is idempotent on the bit array.  An add of an item
\* the filter has already received leaves bit_array as it was, and every
\* add, of a duplicate or not, raises items_added and len(bf) by exactly 1.
C15_AddIdempotentOnBits ==
    [][\A r \in DOMAIN bf :
          (nops' = nops + 1 /\ last'.op = "add" /\ last'.recv = r) =>
              /\ bf'[r].items_added = bf[r].items_added + 1
              /\ BFLen(bf'[r]) = BFLen(bf[r]) + 1
              /\ last'.arg \in HistItems(hist[r]) =>
                    bf'[r].bit_array = bf[r].bit_array]_vars

\* C15 witness: the last call added an item for the third time to a filter
\* that still has a clear bit.
C15_Witness ==
    \E r \in DOMAIN bf :
        /\ last.op = "add" /\ last.recv = r
        /\ Len(hist[r]) = 3
        /\ \A i \in 1..3 : hist[r][i][1] = last.arg
        /\ bf[r].items_added = 3
        /\ \E i \in DOMAIN bf[r].bit_array : bf[r].bit_array[i] = 0

=============================================================================
